---- MODULE Spec2Model ----
(***************************************************************************)
(* A model of linkedinBot.py: the text normalizer (extract_text_only),     *)
(* the section extractors (get_about, get_experience, get_projects,        *)
(* get_certification), the basic identity extractor (get_basic_details)    *)
(* and the crawl controller (get_data_from_google).                        *)
(*                                                                         *)
(* A Python str is a sequence of one-character strings.  A value that may  *)
(* be None is a sequence of length at most one: None is <<>> and a present *)
(* value v is <<v>>, so that the empty string (<< <<>> >>) and None (<<>>) *)
(* stay different.                                                         *)
(*                                                                         *)
(* The crawl controller is modelled from the point where the browser       *)
(* session exists and the search URL is loaded (line 280).  Two defects of *)
(* the file lie outside the model: Options (line 269) is never imported,   *)
(* and the annotation Optional[tuple, list] (line 17) is rejected by       *)
(* typing when the module is loaded.                                       *)
(***************************************************************************)
EXTENDS Integers, Sequences, FiniteSets, TLC

\* ------------------------------------------------------------- bounds
\* longest single string handed to the normalizer
MaxLen == 3
\* longest list of strings handed to the normalizer
MaxList == 2
\* most list items one section extractor iterates over
MaxItems == 2
\* most search-result pages of one crawl
MaxPages == 2
\* most result links on one search-result page
MaxLinks == 2

\* ------------------------------------------------------- optional values
None == <<>>

Some(v) == <<v>>

Val(o) == o[1]

\* ------------------------------------------------------------ characters
Letters ==
    { "a", "b", "c", "d", "e", "f", "g", "h", "i", "j", "k", "l", "m",
      "n", "o", "p", "q", "r", "s", "t", "u", "v", "w", "x", "y", "z",
      "A", "B", "C", "D", "E", "F", "G", "H", "I", "J", "K", "L", "M",
      "N", "O", "P", "Q", "R", "S", "T", "U", "V", "W", "X", "Y", "Z" }

Digits == { "0", "1", "2", "3", "4", "5", "6", "7", "8", "9" }

\* str.strip() with no argument strips these
Whitespace == { " ", "\t", "\n" }

\* the regex class \w
IsWord(c) == c \in Letters \cup Digits \cup {"_"}

\* the regex of line 24 without the plus sign in its class
Kept_NoPlus(c) == IsWord(c) \/ c \in { " ", ".", "-" }

\* a character the regex [^\w \.\-\+]+ of line 24 does not match
Kept(c) == IsWord(c) \/ c \in { " ", ".", "-", "+" }

\* ------------------------------------------------------ string functions
RECURSIVE RunEnd(_, _)
\* the index just past the maximal run of matched characters starting at i
RunEnd(w, i) ==
    IF i <= Len(w) /\ ~Kept(w[i]) THEN RunEnd(w, i + 1) ELSE i

RECURSIVE ReSubFrom(_, _)
\* re.sub(regex, "", w) from index i on: every maximal run of characters
\* the class matches is replaced by the empty string
ReSubFrom(w, i) ==
    IF i > Len(w) THEN <<>>
    ELSE IF Kept(w[i]) THEN <<w[i]>> \o ReSubFrom(w, i + 1)
    ELSE ReSubFrom(w, RunEnd(w, i))

re_sub_regex(w) == ReSubFrom(w, 1)

RECURSIVE lstrip(_)
lstrip(w) ==
    IF w # <<>> /\ Head(w) \in Whitespace THEN lstrip(Tail(w)) ELSE w

RECURSIVE rstrip(_)
rstrip(w) ==
    IF w # <<>> /\ w[Len(w)] \in Whitespace
    THEN rstrip(SubSeq(w, 1, Len(w) - 1))
    ELSE w

strip(w) == rstrip(lstrip(w))

RECURSIVE join(_, _)
\* sep.join(items)
join(sep, items) ==
    IF items = <<>> THEN <<>>
    ELSE IF Len(items) = 1 THEN items[1]
    ELSE items[1] \o sep \o join(sep, Tail(items))

\* the two shapes of the normalizer's argument
Str(s) == [isList |-> FALSE, v |-> s]

List(l) == [isList |-> TRUE, v |-> l]

\* the normalizer with strip() applied before the regex instead of after
extract_text_only_StripFirst(word) ==
    re_sub_regex(strip(IF word.isList THEN join(<<" ">>, word.v) ELSE word.v))

\* lines 17-27
extract_text_only(word) ==
    LET joined == IF word.isList THEN join(<<" ">>, word.v) ELSE word.v
    IN  strip(re_sub_regex(joined))

\* ------------------------------------------------------ more of str / re
RECURSIVE split(_, _)
\* s.split(sep) for a one-character separator
split(s, sep) ==
    LET hits == { i \in 1..Len(s) : s[i] = sep }
    IN  IF hits = {} THEN <<s>>
        ELSE LET i == CHOOSE h \in hits : \A g \in hits : h <= g
             IN  <<SubSeq(s, 1, i - 1)>> \o split(SubSeq(s, i + 1, Len(s)), sep)

RECURSIVE replace_char(_, _, _)
\* re.sub(old, new, s) for a pattern that is one literal character
replace_char(s, old, new) ==
    IF s = <<>> THEN <<>>
    ELSE <<IF Head(s) = old THEN new ELSE Head(s)>> \o replace_char(Tail(s), old, new)

\* whether re.compile accepts the pattern: a quantifier with nothing before
\* it is "nothing to repeat"
re_compiles(pat) == pat = <<>> \/ pat[1] # "+"

\* whether the pattern, read as a regex of literal characters and the
\* wildcard ".", matches s at index i
MatchesAt(pat, s, i) ==
    /\ i + Len(pat) - 1 <= Len(s)
    /\ \A k \in 1..Len(pat) : pat[k] = "." \/ pat[k] = s[i + k - 1]

RECURSIVE RemoveFrom(_, _, _)
RemoveFrom(pat, s, i) ==
    IF i > Len(s) THEN <<>>
    ELSE IF MatchesAt(pat, s, i) THEN RemoveFrom(pat, s, i + Len(pat))
    ELSE <<s[i]>> \o RemoveFrom(pat, s, i + 1)

\* re.sub(pat, "", s) for a pattern without quantifiers: the leftmost
\* non-overlapping matches are removed; the empty pattern removes nothing
re_sub_pattern(pat, s) == IF pat = <<>> THEN s ELSE RemoveFrom(pat, s, 1)

\* --------------------------------------------- results and raised errors
Ok(v) == [exc |-> "", val |-> v]

Raise(e) == [exc |-> e, val |-> <<>>]

\* ---------------------------------------------------- section extractors
\* lines 30-43; the soup's first <p> is None or Some(text)
get_about(about_soup) ==
    IF about_soup.p # None
    THEN Some(extract_text_only(Str(replace_char(Val(about_soup.p), "\n", "."))))
    ELSE None

\* lines 90-97 with the two description nodes looked up the other way round
experience_description_LessFirst(exp) ==
    IF exp.less # None
    THEN Some(extract_text_only(Str(Val(exp.less))))
    ELSE None

\* lines 90-97: the description of one experience item
experience_description(exp) ==
    IF exp.less # None
    THEN IF exp.more # None
         THEN Some(extract_text_only(Str(Val(exp.more))))
         ELSE Some(extract_text_only(Str(Val(exp.less))))
    ELSE None

\* lines 57-99: the body of the loop over the experience items; exp gives
\* each sub-node find() looks for as None or Some(its text)
experience_item(exp) ==
    IF exp.h3 = None THEN Raise("AttributeError")
    ELSE
    LET role == Some(extract_text_only(Str(Val(exp.h3))))
        company_link == IF exp.a # None THEN Some(Val(exp.a).href) ELSE None
        company ==
            IF exp.a # None
            THEN Some(extract_text_only(Str(Val(exp.a).text)))
            ELSE None
        date_details ==
            IF exp.date # None
            THEN split(extract_text_only(Str(Val(exp.date))), "-")
            ELSE <<>>
    IN
    IF exp.date # None /\ Len(date_details) < 2 THEN Raise("IndexError")
    ELSE
    LET start_date == IF exp.date # None THEN Some(date_details[1]) ELSE None
        end_date == IF exp.date # None THEN Some(date_details[2]) ELSE None
        duration_details ==
            IF exp.duration # None
            THEN extract_text_only(Str(Val(exp.duration)))
            ELSE <<>>
    IN
    IF exp.duration # None /\ ~re_compiles(duration_details) THEN Raise("re.error")
    ELSE IF exp.duration # None /\ end_date = None THEN Raise("TypeError")
    ELSE
    Ok([ role |-> role,
         company |-> company,
         company_link |-> company_link,
         start_date |-> start_date,
         end_date |->
             IF exp.duration # None
             THEN Some(re_sub_pattern(duration_details, Val(end_date)))
             ELSE end_date,
         duration |-> IF exp.duration # None THEN Some(duration_details) ELSE None,
         location |->
             IF exp.location # None
             THEN Some(extract_text_only(Str(Val(exp.location))))
             ELSE None,
         description |-> experience_description(exp) ])

RECURSIVE experience_loop(_, _)
\* lines 56-99: the loop, ended by the first item that raises
experience_loop(experiences, total_experiences) ==
    IF experiences = <<>> THEN Ok(total_experiences)
    ELSE LET r == experience_item(Head(experiences))
         IN  IF r.exc # "" THEN Raise(r.exc)
             ELSE experience_loop(Tail(experiences), Append(total_experiences, r.val))

\* lines 46-101
get_experience(experience_soup) == experience_loop(experience_soup.items, <<>>)

\* lines 131-138: the description of one project item
project_description(proj) ==
    IF proj.less # None
    THEN IF proj.more # None
         THEN Some(extract_text_only(Str(Val(proj.more))))
         ELSE Some(extract_text_only(Str(Val(proj.less))))
    ELSE None

\* lines 115-143: the body of the loop over the project items.  The name
\* is stored under the key "role" (line 123); project_name stays None.
project_item(proj) ==
    IF proj.h3 = None THEN Raise("AttributeError")
    ELSE
    LET date_details ==
            IF proj.date # None
            THEN split(extract_text_only(Str(Val(proj.date))), "-")
            ELSE <<>>
    IN
    Ok([ project_name |-> None,
         role |-> Some(extract_text_only(Str(Val(proj.h3)))),
         start_date |-> IF proj.date # None THEN Some(date_details[1]) ELSE None,
         end_date |->
             IF proj.date # None /\ Len(date_details) > 1
             THEN Some(date_details[2])
             ELSE None,
         description |-> project_description(proj),
         project_link |-> IF proj.button # None THEN Some(Val(proj.button)) ELSE None ])

RECURSIVE project_loop(_, _)
\* lines 114-143
project_loop(projects, total_projects) ==
    IF projects = <<>> THEN Ok(total_projects)
    ELSE LET r == project_item(Head(projects))
         IN  IF r.exc # "" THEN Raise(r.exc)
             ELSE project_loop(Tail(projects), Append(total_projects, r.val))

\* lines 104-145
get_projects(projects_soup) == project_loop(projects_soup.items, <<>>)

\* lines 159-178: one certification item; no lookup of it can raise
certification_item(certify) ==
    [ certification |->
          IF certify.h3 # None
          THEN Some(extract_text_only(Str(Val(certify.h3))))
          ELSE None,
      certified_by |->
          IF certify.h4 # None
          THEN Some(extract_text_only(Str(Val(certify.h4))))
          ELSE None,
      issued_on |->
          IF certify.div # None
          THEN Some(extract_text_only(Str(Val(certify.div))))
          ELSE None,
      certificate_link |-> IF certify.a # None THEN Some(Val(certify.a)) ELSE None ]

\* lines 148-180
get_certification(certifications_soup) ==
    Ok([ i \in 1..Len(certifications_soup.items) |->
             certification_item(certifications_soup.items[i]) ])

\* lines 183-239: each of the four lookups is None when find_element
\* raises, and then the field is the empty string
get_basic_details(user_details) ==
    LET user_name ==
            IF user_details.h1 # None
            THEN extract_text_only(Str(Val(user_details.h1)))
            ELSE <<>>
        user_description ==
            IF user_details.h2 # None THEN Val(user_details.h2) ELSE <<>>
        user_location ==
            IF user_details.h3 # None
            THEN IF \E i \in 1..Len(Val(user_details.h3)) : Val(user_details.h3)[i] = "\n"
                 THEN split(Val(user_details.h3), "\n")[1]
                 ELSE Val(user_details.h3)
            ELSE <<>>
        current_company ==
            IF user_details.company # None THEN Val(user_details.company) ELSE <<>>
    IN  [ user_name |-> <<user_name>>,
          user_location |-> user_location,
          user_description |-> user_description,
          current_company |-> current_company ]

\* ------------------------------------------------- normalizer: the inputs
\* one character of each class the normalizer tells apart
Alphabet == { "a", "1", "_", " ", "\t", "\n", ".", "-", "+", "!" }

ListAlphabet == { "a", "_", " ", "\t", "!" }

RECURSIVE SeqsUpTo(_, _)
\* the sequences over S of length at most n
SeqsUpTo(S, n) ==
    IF n = 0 THEN { <<>> }
    ELSE LET shorter == SeqsUpTo(S, n - 1)
         IN  shorter \cup { <<x>> \o s : x \in S, s \in { t \in shorter : Len(t) = n - 1 } }

StrInputs == { Str(s) : s \in SeqsUpTo(Alphabet, MaxLen) }

ListInputs ==
    { List(l) : l \in SeqsUpTo(SeqsUpTo(ListAlphabet, MaxLen - 2), MaxList) }

\* ------------------------------------------------- extractors: the inputs
T_Analyst == <<"A", "n", "a", "l", "y", "s", "t">>

T_Acme == <<"A", "c", "m", "e", ",">>

T_Range == <<"2", "0", "1", "9", "-", "2", "0", "2", "1">>

T_RangeWithDuration == <<"2", "0", "1", "9", "-", "2", "0", "2", "1", " ", "2", "y">>

T_Year == <<"2", "0", "1", "9">>

T_Duration == <<"2", "y">>

T_Pune == <<"P", "u", "n", "e">>

T_Less == <<"d", "i", "d", ":">>

T_More == <<"d", "i", "d", ":", " ", "a", "l", "l">>

Opt(S) == { None } \cup { Some(x) : x \in S }

\* every combination of present and absent sub-nodes of one experience item
ExpItems ==
    [ h3 : Opt({T_Analyst}),
      a : Opt({[href |-> "/company/acme", text |-> T_Acme]}),
      date : Opt({T_RangeWithDuration, T_Year}),
      duration : Opt({T_Duration}),
      location : Opt({T_Pune}),
      less : Opt({T_Less}),
      more : Opt({T_More}) ]

\* every combination of present and absent sub-nodes of one project item
ProjItems ==
    [ h3 : Opt({T_Analyst}),
      date : Opt({T_Range, T_Year}),
      less : Opt({T_Less}),
      more : Opt({T_More}),
      button : Opt({"/redir/project"}) ]

\* ----------------------------------------------------- crawl: the inputs
\* the role label get_data_from_google is called with
Role == "data analyst"

T_Name == <<"A", "n", "n", "!">>

T_Headline == <<"D", "a", "t", "a">>

T_Location == <<"P", "u", "n", "e", "\n", "5", "0", "0", "+">>

T_About == <<"H", "i", "\n", "a", "l", "l">>

NoIdentity == [h1 |-> None, h2 |-> None, h3 |-> None, company |-> None]

FullIdentity ==
    [ h1 |-> Some(T_Name),
      h2 |-> Some(T_Headline),
      h3 |-> Some(T_Location),
      company |-> Some(T_Acme) ]

\* one <section> element of a profile page: the keywords its class
\* attribute contains, and what its outerHTML holds
Section(class, p, items) == [class |-> class, p |-> p, items |-> items]

AnalystItem ==
    [ h3 |-> Some(T_Analyst), a |-> None, date |-> Some(T_Range),
      duration |-> None, location |-> None, less |-> None, more |-> None ]

NoHyphenItem == [AnalystItem EXCEPT !.date = Some(T_Year)]

ProjectItem ==
    [ h3 |-> Some(T_Analyst), date |-> Some(T_Year), less |-> Some(T_Less),
      more |-> Some(T_More), button |-> None ]

CertificateItem ==
    [ h3 |-> None, h4 |-> Some(T_Acme), div |-> Some(T_Year), a |-> Some("/cert") ]

\* what following a result link leads to: whether get_attribute and click
\* succeed, whether the landmark image appears within the wait, whether the
\* details element is found, whether the first <section> is found ("none"
\* when find_element raises) and displayed, and the page's content
Page(click, landmark, details, sectionCheck, identity, sections) ==
    [ click |-> click, landmark |-> landmark, details |-> details,
      sectionCheck |-> sectionCheck, identity |-> identity, sections |-> sections ]

FullSections ==
    << Section({"summary"}, Some(T_About), <<>>),
       Section({"experience"}, None, <<AnalystItem>>),
       Section({}, None, <<>>),
       Section({"projects"}, None, <<ProjectItem>>),
       Section({"certifications"}, None, <<CertificateItem>>) >>

Profiles ==
    { Page(FALSE, FALSE, FALSE, "none", NoIdentity, <<>>),
      Page(TRUE, FALSE, FALSE, "none", NoIdentity, <<>>),
      Page(TRUE, TRUE, FALSE, "none", NoIdentity, <<>>),
      Page(TRUE, TRUE, TRUE, "none", FullIdentity, <<>>),
      Page(TRUE, TRUE, TRUE, "hidden", NoIdentity, <<>>),
      Page(TRUE, TRUE, TRUE, "shown", NoIdentity, <<Section({}, None, <<>>)>>),
      Page(TRUE, TRUE, TRUE, "shown", FullIdentity, FullSections),
      Page(TRUE, TRUE, TRUE, "shown", FullIdentity,
           <<Section({"experience"}, None, <<AnalystItem, NoHyphenItem>>)>>) }

\* the search-result pages: how many result links become visible within
\* the wait (0: none, the wait times out), and the state of the element
\* with id pnnext.  The last page the model visits has no visible one.
Serps(n) ==
    [ links : 0..MaxLinks,
      pnnext : IF n < MaxPages THEN { "absent", "hidden", "visible" }
               ELSE { "absent", "hidden" } ]

\* lines 303-314
EmptyUserData ==
    [ name |-> None, role |-> None, currently_doing |-> None,
      current_company |-> None, about |-> None, linkedin_profile |-> None,
      location |-> None, experience |-> None, certifications |-> None,
      projects |-> None ]

\* ------------------------------------------------------------ the state
VARIABLES
    \* the normalizer applied once and twice to an input
    word, out1, out2, npc,
    \* one run of get_experience or get_projects, item by item
    xfn, xpc, xi, xitem, xtotal, xexc,
    \* get_data_from_google: its locals and its position
    pc, next_exists, linkedin_links, idx, user_data, basic_data,
    user_has_sections, total_data, exc,
    \* the browser session: open or quit, how often it was quit, the page it
    \* shows (the search-result page serpNo with content serp, or a profile)
    driver, quits, loc, serpNo, serp, profile,
    \* what was written to the spreadsheet
    sink

normVars == <<word, out1, out2, npc>>

extVars == <<xfn, xpc, xi, xitem, xtotal, xexc>>

crawlVars ==
    <<pc, next_exists, linkedin_links, idx, user_data, basic_data,
      user_has_sections, total_data, exc, driver, quits, loc, serpNo, serp,
      profile, sink>>

vars == <<normVars, extVars, crawlVars>>

NormIdle == word = Str(<<>>) /\ out1 = <<>> /\ out2 = <<>> /\ npc = "idle"

ExtIdle ==
    /\ xfn = "none"
    /\ xpc = "idle"
    /\ xi = 0
    /\ xitem = <<>>
    /\ xtotal = <<>>
    /\ xexc = ""

CrawlIdle ==
    /\ pc = "idle"
    /\ next_exists = TRUE
    /\ linkedin_links = <<>>
    /\ idx = 0
    /\ user_data = <<>>
    /\ basic_data = <<>>
    /\ user_has_sections = FALSE
    /\ total_data = <<>>
    /\ exc = ""
    /\ driver = "none"
    /\ quits = 0
    /\ loc = "none"
    /\ serpNo = 0
    /\ serp = <<>>
    /\ profile = <<>>
    /\ sink = <<>>

\* ------------------------------------------- the normalizer on its inputs
NormInit ==
    /\ (word \in StrInputs \/ word \in ListInputs)
    /\ out1 = <<>>
    /\ out2 = <<>>
    /\ npc = "in"
    /\ ExtIdle
    /\ CrawlIdle

\* one call of the normalizer on the input
Normalize ==
    /\ npc = "in"
    /\ out1' = extract_text_only(word)
    /\ npc' = "once"
    /\ UNCHANGED <<word, out2, extVars, crawlVars>>

\* a second call, on the result of the first
Renormalize ==
    /\ npc = "once"
    /\ out2' = extract_text_only(Str(out1))
    /\ npc' = "twice"
    /\ UNCHANGED <<word, out1, extVars, crawlVars>>

NormNext == Normalize \/ Renormalize

SpecNorm == NormInit /\ [][NormNext]_vars

\* ------------------------------- the extractors' loops, one item per step
ExtInit ==
    /\ xfn \in { "get_experience", "get_projects" }
    /\ xpc = "loop"
    /\ xi = 0
    /\ xitem = <<>>
    /\ xtotal = <<>>
    /\ xexc = ""
    /\ NormIdle
    /\ CrawlIdle

\* lines 56-99: one more experience item is found and handled
ExperienceStep ==
    /\ xfn = "get_experience"
    /\ xpc = "loop"
    /\ xi < MaxItems
    /\ \E exp \in ExpItems :
          LET r == experience_item(exp)
          IN  /\ xitem' = exp
              /\ xi' = xi + 1
              /\ xexc' = r.exc
              /\ xpc' = IF r.exc # "" THEN "raised" ELSE "loop"
              /\ xtotal' = IF r.exc # "" THEN xtotal ELSE Append(xtotal, r.val)
    /\ UNCHANGED <<xfn, normVars, crawlVars>>

\* line 101: no item is left
ExperienceReturn ==
    /\ xfn = "get_experience"
    /\ xpc = "loop"
    /\ xpc' = "returned"
    /\ UNCHANGED <<xfn, xi, xitem, xtotal, xexc, normVars, crawlVars>>

\* lines 114-143: one more project item is found and handled
ProjectStep ==
    /\ xfn = "get_projects"
    /\ xpc = "loop"
    /\ xi < MaxItems
    /\ \E proj \in ProjItems :
          LET r == project_item(proj)
          IN  /\ xitem' = proj
              /\ xi' = xi + 1
              /\ xexc' = r.exc
              /\ xpc' = IF r.exc # "" THEN "raised" ELSE "loop"
              /\ xtotal' = IF r.exc # "" THEN xtotal ELSE Append(xtotal, r.val)
    /\ UNCHANGED <<xfn, normVars, crawlVars>>

\* line 145: no item is left
ProjectReturn ==
    /\ xfn = "get_projects"
    /\ xpc = "loop"
    /\ xpc' = "returned"
    /\ UNCHANGED <<xfn, xi, xitem, xtotal, xexc, normVars, crawlVars>>

ExtNext == ExperienceStep \/ ExperienceReturn \/ ProjectStep \/ ProjectReturn

SpecExt == ExtInit /\ [][ExtNext]_vars

\* ------------------------------------------------- get_data_from_google
\* the last section whose class attribute contains the keyword: a later
\* section overwrites what an earlier one of the same category stored
LastWith(sections, keyword) ==
    LET hits == { i \in 1..Len(sections) : keyword \in sections[i].class }
    IN  sections[CHOOSE i \in hits : \A j \in hits : i >= j]

\* whether an extractor raises on section i (get_about and
\* get_certification cannot), and what
SectionRaises(section) ==
    IF "experience" \in section.class /\ get_experience(section).exc # ""
    THEN get_experience(section).exc
    ELSE IF "projects" \in section.class /\ get_projects(section).exc # ""
    THEN get_projects(section).exc
    ELSE ""

\* lines 354-372: every section in page order, each handed to the
\* extractors its class attribute names; the first extractor that raises
\* ends the loop with its exception
section_loop(sections, data) ==
    LET raising == { i \in 1..Len(sections) : SectionRaises(sections[i]) # "" }
        has(keyword) == \E i \in 1..Len(sections) : keyword \in sections[i].class
    IN  IF raising # {}
        THEN Raise(SectionRaises(sections[CHOOSE i \in raising : \A j \in raising : i <= j]))
        ELSE Ok([data EXCEPT
                   !.about =
                       IF has("summary") THEN get_about(LastWith(sections, "summary")) ELSE @,
                   !.experience =
                       IF has("experience")
                       THEN Some(get_experience(LastWith(sections, "experience")).val)
                       ELSE @,
                   !.projects =
                       IF has("projects")
                       THEN Some(get_projects(LastWith(sections, "projects")).val)
                       ELSE @,
                   !.certifications =
                       IF has("certifications")
                       THEN Some(get_certification(LastWith(sections, "certifications")).val)
                       ELSE @ ])

\* lines 254-280: the session exists and shows the first result page
Init ==
    /\ pc = "while_test"
    /\ next_exists = TRUE
    /\ linkedin_links = <<>>
    /\ idx = 0
    /\ user_data = <<>>
    /\ basic_data = <<>>
    /\ user_has_sections = FALSE
    /\ total_data = <<>>
    /\ exc = ""
    /\ driver = "open"
    /\ quits = 0
    /\ loc = "results"
    /\ serpNo = 1
    /\ serp \in Serps(1)
    /\ profile = <<>>
    /\ sink = <<>>
    /\ NormIdle
    /\ ExtIdle

\* line 283: the loop's test
WhileTest ==
    /\ pc = "while_test"
    /\ pc' = IF next_exists THEN "wait_links" ELSE "quit"
    /\ UNCHANGED <<next_exists, linkedin_links, idx, user_data, basic_data,
                   user_has_sections, total_data, exc, driver, quits, loc,
                   serpNo, serp, profile, sink, normVars, extVars>>

\* lines 285-298 with an except branch that only goes on to the next
\* iteration
WaitLinks_NoFlag ==
    /\ pc = "wait_links"
    /\ IF serp.links = 0
       THEN /\ pc' = "while_test"
            /\ UNCHANGED <<next_exists, linkedin_links, idx>>
       ELSE /\ linkedin_links' = [i \in 1..serp.links |-> <<serpNo, i>>]
            /\ idx' = 1
            /\ pc' = "for_links"
            /\ UNCHANGED next_exists
    /\ UNCHANGED <<user_data, basic_data, user_has_sections, total_data, exc,
                   driver, quits, loc, serpNo, serp, profile, sink, normVars,
                   extVars>>

\* lines 285-298: the bounded wait for the result links.  It times out
\* when no link becomes visible; otherwise it yields the links, each known
\* by its href, here the pair (page, position).
WaitLinks ==
    /\ pc = "wait_links"
    /\ IF serp.links = 0
       THEN /\ next_exists' = FALSE
            /\ pc' = "while_test"
            /\ UNCHANGED <<linkedin_links, idx>>
       ELSE /\ linkedin_links' = [i \in 1..serp.links |-> <<serpNo, i>>]
            /\ idx' = 1
            /\ pc' = "for_links"
            /\ UNCHANGED next_exists
    /\ UNCHANGED <<user_data, basic_data, user_has_sections, total_data, exc,
                   driver, quits, loc, serpNo, serp, profile, sink, normVars,
                   extVars>>

\* lines 301-335: the next link of the page.  Off the result page the link
\* element is stale and get_attribute raises; on it the link leads to some
\* page.  Every failure is caught and the loop goes on with the next link
\* (line 335), without driver.back().
OpenLink ==
    /\ pc = "for_links"
    /\ idx <= Len(linkedin_links)
    /\ IF loc # "results"
       THEN /\ user_data' = EmptyUserData
            /\ idx' = idx + 1
            /\ UNCHANGED <<pc, loc, profile>>
       ELSE \E page \in Profiles :
              /\ user_data' =
                    [EmptyUserData EXCEPT !.linkedin_profile = Some(linkedin_links[idx])]
              /\ IF ~page.click
                 THEN /\ idx' = idx + 1
                      /\ UNCHANGED <<pc, loc, profile>>
                 ELSE /\ loc' = "profile"
                      /\ profile' = page
                      /\ IF page.landmark /\ page.details
                         THEN pc' = "pipeline" /\ UNCHANGED idx
                         ELSE idx' = idx + 1 /\ UNCHANGED pc
    /\ UNCHANGED <<next_exists, linkedin_links, basic_data, user_has_sections,
                   total_data, exc, driver, quits, serpNo, serp, sink, normVars,
                   extVars>>

\* lines 337-345: the identity fields, then the check for a first section;
\* when that lookup raises the profile is skipped (line 345), again
\* without driver.back()
Pipeline ==
    /\ pc = "pipeline"
    /\ basic_data' = get_basic_details(profile.identity)
    /\ IF profile.sectionCheck = "none"
       THEN /\ idx' = idx + 1
            /\ pc' = "for_links"
            /\ UNCHANGED user_has_sections
       ELSE /\ user_has_sections' = (profile.sectionCheck = "shown")
            /\ pc' = "extract"
            /\ UNCHANGED idx
    /\ UNCHANGED <<next_exists, linkedin_links, user_data, total_data, exc,
                   driver, quits, loc, serpNo, serp, profile, sink, normVars,
                   extVars>>

\* lines 348-384: the sections, the record, driver.back().  An exception of
\* an extractor is caught nowhere and leaves get_data_from_google.
Extract ==
    /\ pc = "extract"
    /\ LET r == IF user_has_sections
                THEN section_loop(profile.sections, user_data)
                ELSE Ok(user_data)
       IN  IF r.exc # ""
           THEN /\ pc' = "crashed"
                /\ exc' = r.exc
                /\ UNCHANGED <<user_data, total_data, loc, idx>>
           ELSE /\ user_data' =
                      [r.val EXCEPT !.name = Some(basic_data.user_name[1]),
                                    !.currently_doing = Some(basic_data.user_description),
                                    !.location = Some(basic_data.user_location),
                                    !.current_company = Some(basic_data.current_company),
                                    !.role = Some(Role)]
                /\ total_data' = Append(total_data, user_data')
                /\ loc' = "results"
                /\ idx' = idx + 1
                /\ pc' = "for_links"
                /\ UNCHANGED exc
    /\ UNCHANGED <<next_exists, linkedin_links, basic_data, user_has_sections,
                   driver, quits, serpNo, serp, profile, sink, normVars, extVars>>

\* lines 387-390, after the last link: find_element(By.ID, "pnnext") raises
\* NoSuchElementException when the page shown has no such element, and
\* nothing catches it; a profile page has none
CheckNext ==
    /\ pc = "for_links"
    /\ idx > Len(linkedin_links)
    /\ IF loc # "results" \/ serp.pnnext = "absent"
       THEN /\ pc' = "crashed"
            /\ exc' = "NoSuchElementException"
            /\ UNCHANGED <<next_exists, serpNo, serp>>
       ELSE IF serp.pnnext = "hidden"
       THEN /\ next_exists' = FALSE
            /\ pc' = "while_test"
            /\ UNCHANGED <<exc, serpNo, serp>>
       ELSE /\ next_exists' = TRUE
            /\ serpNo' = serpNo + 1
            /\ serp' \in Serps(serpNo + 1)
            /\ pc' = "while_test"
            /\ UNCHANGED exc
    /\ UNCHANGED <<linkedin_links, idx, user_data, basic_data, user_has_sections,
                   total_data, driver, quits, loc, profile, sink, normVars,
                   extVars>>

\* line 393
Quit ==
    /\ pc = "quit"
    /\ driver' = "quit"
    /\ quits' = quits + 1
    /\ pc' = "save"
    /\ UNCHANGED <<next_exists, linkedin_links, idx, user_data, basic_data,
                   user_has_sections, total_data, exc, loc, serpNo, serp,
                   profile, sink, normVars, extVars>>

\* lines 395-403
Save ==
    /\ pc = "save"
    /\ sink' = Append(sink, total_data)
    /\ pc' = "done"
    /\ UNCHANGED <<next_exists, linkedin_links, idx, user_data, basic_data,
                   user_has_sections, total_data, exc, driver, quits, loc,
                   serpNo, serp, profile, normVars, extVars>>

Next ==
    \/ WhileTest
    \/ WaitLinks
    \/ OpenLink
    \/ Pipeline
    \/ Extract
    \/ CheckNext
    \/ Quit
    \/ Save

Spec == Init /\ [][Next]_vars

\* =============================================================== claims
\* ---- the crawl controller (Spec, FairSpec)

\* C1: a run that has ended, by returning or by an exception that left
\* get_data_from_google, has quit the browser session exactly once.
C1_ReleasedExactlyOnce ==
    /\ quits <= 1
    /\ pc \in { "done", "crashed" } => (quits = 1 /\ driver = "quit")

\* C2: once every link of the page is handled, the next-page control
\* decides: present and visible, it is clicked and the loop goes on with
\* next_exists true; absent or not visible, next_exists becomes false and
\* the loop ends normally.
C2_NextControlDecides ==
    [][ (pc = "for_links" /\ idx > Len(linkedin_links)) =>
          IF loc = "results" /\ serp.pnnext = "visible"
          THEN next_exists' /\ pc' = "while_test" /\ serpNo' = serpNo + 1
          ELSE ~next_exists' /\ pc' = "while_test" ]_vars

\* C3: a per-profile failure is absorbed: after a link was skipped (the
\* loop is back at its head with the browser still on the page the link
\* led to) the crawl goes on and no exception leaves get_data_from_google.
C3_SkipAbsorbed ==
    [][ (pc = "for_links" /\ loc = "profile") => pc' # "crashed" ]_vars

NoRecognizedSection ==
    ~user_has_sections \/ \A i \in 1..Len(profile.sections) : profile.sections[i].class = {}

\* C4: total_data grows by exactly one record, at its end, for a link
\* whose navigation, landmark wait and section check succeeded, and by
\* nothing in any other step; the record carries the role and the link's
\* URL, and no section data when the page has no recognized section.
C4_OneRecordPerOpenedProfile ==
    [][ IF pc = "extract"
        THEN /\ Len(total_data') = Len(total_data) + 1
             /\ SubSeq(total_data', 1, Len(total_data)) = total_data
             /\ LET rec == total_data'[Len(total_data')]
                IN  /\ rec.role = Some(Role)
                    /\ rec.linkedin_profile = Some(linkedin_links[idx])
                    /\ NoRecognizedSection =>
                          /\ rec.about = None
                          /\ rec.experience = None
                          /\ rec.projects = None
                          /\ rec.certifications = None
        ELSE total_data' = total_data ]_vars

\* the wait for the result links of the page shown has timed out
TimedOut == serp.links = 0 /\ ~next_exists

\* C5: a timeout of the wait for the result links sets next_exists to
\* false; from then on no link is followed and no next control looked up,
\* the records stay as they are, and the only steps left are the loop's
\* exit, the one quit of the session and then the saving of the records;
\* no exception occurs.
C5_TimeoutEndsRun ==
    /\ [][ (pc = "wait_links" /\ serp.links = 0) =>
              (~next_exists' /\ pc' = "while_test") ]_vars
    /\ [][ ((pc = "wait_links" /\ serp.links = 0) \/ TimedOut) =>
              (total_data' = total_data /\ loc' = loc /\ idx' = idx /\ serp' = serp) ]_vars
    /\ [](TimedOut =>
              /\ pc \in { "while_test", "quit", "save", "done" }
              /\ exc = ""
              /\ pc \in { "while_test", "quit" } => (driver = "open" /\ quits = 0 /\ sink = <<>>)
              /\ pc = "save" => (driver = "quit" /\ quits = 1 /\ sink = <<>>)
              /\ pc = "done" => (driver = "quit" /\ quits = 1 /\ sink = <<total_data>>))
    /\ [][ TimedOut =>
              /\ pc = "while_test" => pc' = "quit"
              /\ pc = "quit" => pc' = "save"
              /\ pc = "save" => pc' = "done" ]_vars

\* C5's case: the wait timed out on the second page, after records were
\* gathered on the first, and the run has ended
C5_Witness ==
    /\ TimedOut
    /\ pc = "done"
    /\ serpNo = 2
    /\ Len(total_data) > 0
    /\ sink = <<total_data>>

\* C8: whenever the loop is at its head, about to follow the next link of
\* the page or to look up the next-page control, the browser shows the
\* search-result page.
C8_OnResultsPage == pc = "for_links" => loc = "results"

\* ---- the normalizer (SpecNorm)

\* C6: normalizing the normalizer's result returns it unchanged.
C6_Idempotent == npc = "twice" => out2 = out1

\* C6's case: a string the normalizer changes, normalized twice
C6_Witness ==
    /\ npc = "twice"
    /\ ~word.isList
    /\ out1 # <<>>
    /\ out1 # word.v
    /\ word.v[1] \in Whitespace

Joined == IF word.isList THEN join(<<" ">>, word.v) ELSE word.v

\* the text between the first and the last character that is no whitespace
Trimmed(s) ==
    LET inner == { i \in 1..Len(s) : s[i] \notin Whitespace }
    IN  IF inner = {} THEN <<>>
        ELSE SubSeq(s, CHOOSE i \in inner : \A j \in inner : i <= j,
                       CHOOSE i \in inner : \A j \in inner : i >= j)

AllowedAsStated(c) == c \in Letters \cup Digits \cup Whitespace \cup { ".", "-", "+" }

AllowedAsCoded(c) == c \in Letters \cup Digits \cup { "_", " ", ".", "-", "+" }

\* C7 as stated: the result is the input, joined with single spaces, without
\* every character that is not alphanumeric, whitespace, period, hyphen or
\* plus, trimmed.
C7_AsStated ==
    npc \in { "once", "twice" } => out1 = Trimmed(SelectSeq(Joined, AllowedAsStated))

\* C7: the result is the input, joined with single spaces, without every
\* character that is not a letter, a digit, an underscore, a space, a
\* period, a hyphen or a plus (so without tabs and line breaks too),
\* trimmed; it holds no other character.
C7_AsCoded ==
    npc \in { "once", "twice" } =>
        /\ out1 = Trimmed(SelectSeq(Joined, AllowedAsCoded))
        /\ \A i \in 1..Len(out1) : AllowedAsCoded(out1[i])

\* C7's case: a list of two strings whose result keeps an underscore
C7_Witness ==
    /\ npc = "once"
    /\ word.isList
    /\ Len(word.v) = 2
    /\ \E i \in 1..Len(out1) : out1[i] = "_"
    /\ \E i \in 1..Len(Joined) : Joined[i] = "\t"

\* ---- the extractors (SpecExt)

\* the last item was handled without an exception; xitem is that item and
\* the last record of xtotal is its record
Handled == xpc \in { "loop", "returned" } /\ xi > 0

LastRecord == xtotal[Len(xtotal)]

Normalized(node) == Some(extract_text_only(Str(Val(node))))

\* C9: get_experience never raises and holds one record for each item it
\* has handled.
C9_OneRecordPerItem ==
    xfn = "get_experience" => (xpc # "raised" /\ Len(xtotal) = xi)

\* C10 as stated: the description is the expanded node's text whenever
\* there is an expanded node, the collapsed node's text when there is only
\* a collapsed node, and None when there is neither.
C10_AsStated ==
    Handled =>
        LastRecord.description =
            IF xitem.more # None THEN Normalized(xitem.more)
            ELSE IF xitem.less # None THEN Normalized(xitem.less)
            ELSE None

\* C10: the description is the expanded node's text when there are both a
\* collapsed and an expanded node, the collapsed node's text when there is
\* only a collapsed node, and None when there is no collapsed node, with or
\* without an expanded one.
C10_AsCoded ==
    Handled =>
        LastRecord.description =
            IF xitem.less # None /\ xitem.more # None THEN Normalized(xitem.more)
            ELSE IF xitem.less # None THEN Normalized(xitem.less)
            ELSE None

\* C10's case: an experience item with both nodes, whose record holds the
\* expanded text
C10_Witness ==
    /\ Handled
    /\ xfn = "get_experience"
    /\ xitem.less # None
    /\ xitem.more # None
    /\ LastRecord.description = Some(<<"d", "i", "d", " ", "a", "l", "l">>)

====
